---- MODULE Spec2Model ----
(***************************************************************************)
(* A model of tfatool's synchronisation engine (src/tfatool/sync.py):      *)
(* the streaming transfer of one file in either direction with its failure *)
(* cleanup, the local and remote watcher generators, the three "by         *)
(* arrival" orchestrator generators and the Monitor that drives one of     *)
(* them on a worker thread.                                                *)
(*                                                                         *)
(* The local directory and the device are maps from file names to sizes.   *)
(* Generators are modelled by their position (gpc) and their local         *)
(* variables; a generator is suspended at a yield until its caller         *)
(* resumes it.  A transfer is a sequence of steps (tpc), so that the       *)
(* states in which a partially written file exists are part of the model.  *)
(***************************************************************************)
EXTENDS Integers, Sequences, FiniteSets, TLC

VARIABLES
    local,        \* the local directory: file name -> [size, mtime]
    remote,       \* the device's directory: file name -> size
    changed,      \* the device's "memory changed" flag (cleared when read)
    envLeft,      \* changes the environment may still make (model bound)
    gpc,          \* position of the running function / generator
    dirn,         \* Direction of the transfer loop in progress
    todo,         \* files the loop of up_by_files / down_by_files still has to visit
    cur,          \* <<f>>: the file being synced, <<>> before the first one
    tpc,          \* position inside the transfer of cur
    remoteFiles,  \* the remote_files argument of up_by_files
    resp,         \* the streaming response of _get_file
    err,          \* the exception that is propagating ("none" when none is)
    origErr,      \* the exception the transfer raised first
    log,          \* primitive calls made while syncing cur, in order
    mode,         \* the generator function that is running ("none" when none is)
    gactive,      \* TRUE while control is inside the generator (inside next())
    lold, lnew,   \* old_files, new_files of watch_local_files
    rold, rnew,   \* old_files, new_files of watch_remote_files
    newLocal,     \* the pair the local watcher yielded last: [arr, snap]
    newRemote,    \* the pair the remote watcher yielded last: [arr, snap]
    processed,    \* up_down_by_arrival's set of processed file names
    arrivals,     \* local_arrivals / remote_arrivals / new_arrivals of the step
    yielded,      \* the (Direction, arrivals) pair the generator yielded last
    running,      \* Monitor.running (a threading.Event)
    thread,       \* Monitor.thread: "none" for None, otherwise the worker's handle
    wpc,          \* position of the worker thread in _run_sync
    mpc,          \* position of the thread that calls the Monitor's methods
    starts,       \* calls of sync_up / sync_down / sync_both so far (model bound)
    hist          \* history of the run (what the properties speak about)

xferVars == <<dirn, todo, cur, tpc, remoteFiles, resp, err, origErr, log>>
envVars  == <<local, remote, changed, envLeft>>
watchVars == <<lold, lnew, rold, rnew, newLocal, newRemote>>
genVars  == <<mode, gactive, processed, arrivals, yielded>>
monVars  == <<running, thread, wpc, mpc, starts>>
vars == <<local, remote, changed, envLeft, gpc, dirn, todo, cur, tpc,
          remoteFiles, resp, err, origErr, log, mode, gactive, lold, lnew,
          rold, rnew, newLocal, newRemote, processed, arrivals, yielded,
          running, thread, wpc, mpc, starts, hist>>

(***************************************************************************)
(* Bounds of the model and constants of the program.                       *)
(***************************************************************************)
MaxSize == 2
MaxTime == 1
MaxEnvXfer == 1
MaxEnvWatch == 2
MaxEnvOrch == 1
MaxEnvMon == 1
MaxStarts == 2
MaxEnvBoth == 2

\* _write_file streams with response.iter_content(5*10**5)
ChunkSize == 500000
\* "if response.status_code == 200"
StatusOK == 200
\* any status other than 200 the device may answer with
StatusNotFound == 404

Names == {"DCIM", "b.jpg"}
Sizes == 1 .. MaxSize
Times == 0 .. MaxTime
\* the modification time of a file that the program writes: no earlier than
\* that of any file there is
Now == MaxTime
LocalDir  == "/local"
RemoteDir == "/DCIM/100__TSB"
\* the file names of Names that are substrings of the string RemoteDir
RemoteDirSubstrings == {"DCIM"}

Min(a, b) == IF a < b THEN a ELSE b
PartialFns(D, R) == UNION {[S -> R] : S \in SUBSET D}
Without(f, n) == [m \in (DOMAIN f) \ {n} |-> f[m]]
With(f, n, v) == [m \in (DOMAIN f) \cup {n} |-> IF m = n THEN v ELSE f[m]]

(***************************************************************************)
(* File records and listings.                                              *)
(***************************************************************************)
\* SimpleFileInfo(session.local_dir, entry.name, path, size, datetime)
SimpleFileInfo(n, meta) ==
    [directory |-> LocalDir, filename |-> n, path |-> <<LocalDir, n>>,
     size |-> meta.size, datetime |-> meta.mtime]

\* a record of the device's listing (command.list_files)
FileInfo(n, sz) ==
    [directory |-> RemoteDir, filename |-> n, path |-> <<RemoteDir, n>>,
     size |-> sz]

list_local_files(fs) == {SimpleFileInfo(n, fs[n]) : n \in DOMAIN fs}
list_files(dev) == {FileInfo(n, dev[n]) : n \in DOMAIN dev}
map_files_raw(dev) == [n \in DOMAIN dev |-> FileInfo(n, dev[n])]

NoResponse == [status |-> 0, total |-> 0, left |-> 0]
NoRemoteFiles == [kind |-> "none", map |-> <<>>, dir |-> ""]
Event(op, path, len) == [op |-> op, path |-> path, len |-> len]

NoPair == [arr |-> {}, snap |-> {}]
NoYield == [dir |-> "none", files |-> {}]
InitHist == [stale |-> FALSE, same |-> FALSE, pbarErr |-> FALSE,
             cleaned |-> FALSE,
             \* ticks of each watcher so far (2 stands for "two or more") and
             \* the snapshot each reported on its previous tick
             lticks |-> 0, rticks |-> 0, lprev |-> {}, rprev |-> {},
             \* whether the last tick of the remote watcher listed the device
             relisted |-> FALSE,
             \* what command.memory_changed answered on that tick
             sig |-> FALSE,
             \* names the orchestrator yielded in an up step / a down step
             yUp |-> {}, yDown |-> {},
             \* names the orchestrator handed to up_by_files / down_by_files
             handed |-> {},
             \* live worker threads of the Monitor
             live |-> 0,
             \* stop() was called since the worker was started, and the calls
             \* of next(files) the worker has begun since (2: two or more)
             stopped |-> FALSE, adv |-> 0,
             \* the last start raised AssertionError
             startErr |-> FALSE,
             \* this worker was started after a stop() and a join() of the one
             \* before it (kept until its first loop test)
             afterStop |-> FALSE]

HasOp(lg, op) == \E i \in 1 .. Len(lg) : lg[i].op = op
FirstOp(lg, op) == CHOOSE i \in 1 .. Len(lg) :
                      lg[i].op = op /\ \A j \in 1 .. (i - 1) : lg[j].op # op

(***************************************************************************)
(* The device's and the local file system's primitives.                    *)
(***************************************************************************)
\* upload.delete_file(path, session): the device removes the file at path
DeleteOnDevice(dev, path) ==
    IF path[1] = RemoteDir /\ path[2] \in DOMAIN dev
    THEN Without(dev, path[2]) ELSE dev

\* os.remove(local_name)
OsRemove(fs, n) == Without(fs, n)

\* open(local_path, "wb"): the file exists and is empty
OpenWb(fs, n, t) == With(fs, n, [size |-> 0, mtime |-> t])

\* outfile.write(chunk) of a chunk of k bytes
WriteChunkTo(fs, n, k) == With(fs, n, [fs[n] EXCEPT !.size = @ + k])

(***************************************************************************)
(* The transfer loop: up_by_files / down_by_files visit the files of       *)
(* to_sync one at a time (a set is iterated in no particular order).       *)
(***************************************************************************)
curFile == cur[1]
curName == cur[1].filename

NewSyncHist == [hist EXCEPT !.stale = FALSE, !.same = FALSE, !.pbarErr = FALSE,
                            !.cleaned = FALSE]

NextFile ==
    /\ tpc = "loop" /\ todo # {}
    /\ \E x \in todo : cur' = <<x>> /\ todo' = todo \ {x}
    /\ tpc' = "sync" /\ log' = <<>> /\ resp' = NoResponse
    /\ err' = "none" /\ origErr' = "none"
    /\ hist' = NewSyncHist
    /\ UNCHANGED <<dirn, remoteFiles, gpc, envVars, watchVars, genVars, monVars>>

(***************************************************************************)
(* Download: _sync_remote_file, _stream_to_file, _get_file,                *)
(* _write_file_safely, _write_file, _update_pbar.                          *)
(***************************************************************************)
\* what _sync_remote_file decides from local.exists() and the two sizes
RemoteFileActionNoRemove(exists, local_size, remote_size) ==
    IF exists /\ local_size = remote_size THEN "skip" ELSE "stream"

RemoteFileAction(exists, local_size, remote_size) ==
    IF exists
    THEN IF local_size = remote_size THEN "skip" ELSE "replace"
    ELSE "stream"

sync_remote_file ==
    /\ tpc = "sync" /\ dirn = "down"
    /\ LET n == curName
           exists == n \in DOMAIN local
           act == RemoteFileAction(exists, IF exists THEN local[n].size ELSE 0,
                                   curFile.size)
       IN /\ hist' = [hist EXCEPT
                         !.stale = exists /\ local[n].size # curFile.size,
                         !.same = exists /\ local[n].size = curFile.size]
          /\ CASE act = "skip" ->
                    /\ tpc' = "loop"
                    /\ UNCHANGED <<local, log>>
               [] act = "replace" ->
                    /\ local' = OsRemove(local, n)
                    /\ log' = Append(log, Event("os.remove", <<LocalDir, n>>, 0))
                    /\ tpc' = "get"
               [] OTHER ->
                    /\ tpc' = "get"
                    /\ UNCHANGED <<local, log>>
    /\ UNCHANGED <<remote, changed, envLeft, dirn, todo, cur, remoteFiles, resp,
                   err, origErr, gpc, watchVars, genVars, monVars>>

\* requests.get(url, stream=True): the device answers with a status and, for
\* 200, starts to serve the file as it is now
get_file ==
    /\ tpc = "get"
    /\ log' = Append(log, Event("GET", curFile.path, 0))
    /\ \/ /\ curName \in DOMAIN remote
          /\ resp' = [status |-> StatusOK, total |-> remote[curName],
                      left |-> remote[curName]]
          /\ tpc' = "write"
          /\ UNCHANGED <<err, origErr>>
       \/ /\ resp' = [status |-> StatusNotFound, total |-> 0, left |-> 0]
          /\ tpc' = "write"
          /\ UNCHANGED <<err, origErr>>
       \/ \* requests.get raises: _stream_to_file has no handler around it
          /\ err' = "ConnectionError" /\ origErr' = "ConnectionError"
          /\ tpc' = "raise"
          /\ UNCHANGED resp
    /\ UNCHANGED <<envVars, dirn, todo, cur, remoteFiles, gpc, hist,
                   watchVars, genVars, monVars>>

\* _write_file up to the with statement
write_file_open ==
    /\ tpc = "write"
    /\ IF resp.status = StatusOK
       THEN /\ local' = OpenWb(local, curName, Now)
            /\ log' = Append(log, Event("open", <<LocalDir, curName>>, 0))
            /\ tpc' = "chunks"
            /\ UNCHANGED <<err, origErr>>
       ELSE /\ err' = "RequestException" /\ origErr' = "RequestException"
            /\ tpc' = "cleanup"
            /\ UNCHANGED <<local, log>>
    /\ UNCHANGED <<remote, changed, envLeft, dirn, todo, cur, remoteFiles, resp,
                   gpc, hist, watchVars, genVars, monVars>>

\* the local file after one pass of the for loop over a chunk of k bytes,
\* whose progress update raised (pbarFails) or not
AfterChunkDropped(fs, n, k, pbarFails) ==
    IF pbarFails THEN fs ELSE WriteChunkTo(fs, n, k)

AfterChunk(fs, n, k, pbarFails) == WriteChunkTo(fs, n, k)

\* where _write_file is after _update_pbar(pbar, progress), whose
\* pbar.update raised (pbarFails) or not: the except clause logs and returns
update_pbar_raises(pbarFails) == IF pbarFails THEN "cleanup" ELSE "chunks"

update_pbar(pbarFails) == "chunks"

write_chunk ==
    /\ tpc = "chunks" /\ resp.left > 0
    /\ \E k \in 1 .. Min(ChunkSize, resp.left), pbarFails \in BOOLEAN :
          /\ tpc' = update_pbar(pbarFails)
          /\ local' = AfterChunk(local, curName, k, pbarFails)
          /\ resp' = [resp EXCEPT !.left = @ - k]
          /\ log' = Append(log, Event("write", <<LocalDir, curName>>, k))
          /\ hist' = [hist EXCEPT !.pbarErr = @ \/ pbarFails]
    /\ UNCHANGED <<remote, changed, envLeft, dirn, todo, cur, remoteFiles,
                   err, origErr, gpc, watchVars, genVars, monVars>>

\* the stream is exhausted: the with statement closes the file
write_file_close ==
    /\ tpc = "chunks" /\ resp.left = 0
    /\ tpc' = "fin"
    /\ UNCHANGED <<envVars, dirn, todo, cur, remoteFiles, resp, err, origErr,
                   log, gpc, hist, watchVars, genVars, monVars>>

\* pbar.close() and the log line: _write_file returns
write_file_return ==
    /\ tpc = "fin"
    /\ tpc' = "loop"
    /\ UNCHANGED <<envVars, dirn, todo, cur, remoteFiles, resp, err, origErr,
                   log, gpc, hist, watchVars, genVars, monVars>>

\* any exception raised inside _write_file once the file is open: the
\* transport fails between chunks, the thread is interrupted, or the
\* statistics after the loop raise
stream_fails ==
    /\ tpc \in {"chunks", "fin"}
    /\ err' = "StreamError" /\ origErr' = "StreamError"
    /\ tpc' = "cleanup"
    /\ UNCHANGED <<envVars, dirn, todo, cur, remoteFiles, resp, log, gpc, hist,
                   watchVars, genVars, monVars>>

\* the except clause of _write_file_safely: os.remove(local_path); raise e.
\* os.remove of a path that does not exist raises FileNotFoundError, which
\* leaves the handler in place of e.
CleanupKeepsFile(fs, n) == fs

CleanupResult(fs, n) == IF n \in DOMAIN fs THEN OsRemove(fs, n) ELSE fs

write_file_cleanup ==
    /\ tpc = "cleanup"
    /\ log' = Append(log, Event("os.remove", <<LocalDir, curName>>, 0))
    /\ local' = CleanupResult(local, curName)
    /\ err' = IF curName \in DOMAIN local THEN err ELSE "FileNotFoundError"
    /\ tpc' = "raise"
    /\ hist' = [hist EXCEPT !.cleaned = TRUE]
    /\ UNCHANGED <<remote, changed, envLeft, dirn, todo, cur, remoteFiles, resp,
                   origErr, gpc, watchVars, genVars, monVars>>

(***************************************************************************)
(* Upload: _sync_local_file, _stream_from_file, _upload_file_safely.       *)
(***************************************************************************)
\* what _sync_local_file decides for a name found in remote_files
LocalFileActionNoSkip(local_size, remote_size) == "replace"

LocalFileAction(local_size, remote_size) ==
    IF local_size = remote_size THEN "skip" ELSE "replace"

\* the path _upload_file_safely hands to upload.delete_file in its handler
UploadCleanupPath(f) == f.path

sync_local_file ==
    /\ tpc = "sync" /\ dirn = "up"
    /\ LET n == curName
           isDict == remoteFiles.kind = "dict"
           \* "local_name in remote_files": a key of the dict, or a substring
           \* of the str
           found == IF isDict THEN n \in DOMAIN remoteFiles.map
                    ELSE n \in RemoteDirSubstrings
       IN IF found /\ isDict
          THEN LET info == remoteFiles.map[n]
                   act == LocalFileAction(curFile.size, info.size)
               IN /\ hist' = [hist EXCEPT !.stale = curFile.size # info.size,
                                          !.same = curFile.size = info.size]
                  /\ IF act = "skip"
                     THEN /\ tpc' = "loop"
                          /\ UNCHANGED <<remote, changed, log>>
                     ELSE /\ remote' = DeleteOnDevice(remote, info.path)
                          /\ changed' = (changed \/ remote' # remote)
                          /\ log' = Append(log, Event("delete", info.path, 0))
                          /\ tpc' = "upload"
                  /\ UNCHANGED <<err, origErr>>
          ELSE \* found in a str: remote_files[local_name] is a TypeError;
               \* not found: _stream_from_file(session, local_file_info) reads
               \* attributes its swapped arguments do not have
               /\ err' = IF found THEN "TypeError" ELSE "AttributeError"
               /\ origErr' = err'
               /\ tpc' = "raise"
               /\ UNCHANGED <<remote, changed, log, hist>>
    /\ UNCHANGED <<local, envLeft, dirn, todo, cur, remoteFiles, resp, gpc,
                   watchVars, genVars, monVars>>

\* upload.upload_file(fileinfo.path, session) runs to its end: the device
\* holds the file as it is in the local directory
upload_file ==
    /\ tpc = "upload" /\ curName \in DOMAIN local
    /\ log' = Append(log, Event("upload", curFile.path, 0))
    /\ remote' = With(remote, curName, local[curName].size)
    /\ changed' = TRUE
    /\ tpc' = "loop"
    /\ UNCHANGED <<local, envLeft, dirn, todo, cur, remoteFiles, resp, err,
                   origErr, gpc, hist, watchVars, genVars, monVars>>

\* upload.upload_file raises after p bytes reached the device (or before it
\* wrote anything, when sent is FALSE)
upload_fails ==
    /\ tpc = "upload"
    /\ log' = Append(log, Event("upload", curFile.path, 0))
    /\ \/ /\ curName \in DOMAIN local
          /\ \E p \in 0 .. (local[curName].size - 1) :
                remote' = With(remote, curName, p)
          /\ changed' = TRUE
       \/ UNCHANGED <<remote, changed>>
    /\ err' = "UploadError" /\ origErr' = "UploadError"
    /\ tpc' = "upcleanup"
    /\ UNCHANGED <<local, envLeft, dirn, todo, cur, remoteFiles, resp, gpc,
                   hist, watchVars, genVars, monVars>>

\* the except clause of _upload_file_safely:
\* upload.delete_file(fileinfo.path, session); raise e
upload_cleanup ==
    /\ tpc = "upcleanup"
    /\ log' = Append(log, Event("delete", UploadCleanupPath(curFile), 0))
    /\ remote' = DeleteOnDevice(remote, UploadCleanupPath(curFile))
    /\ changed' = (changed \/ remote' # remote)
    /\ tpc' = "raise"
    /\ hist' = [hist EXCEPT !.cleaned = TRUE]
    /\ UNCHANGED <<local, envLeft, dirn, todo, cur, remoteFiles, resp, err,
                   origErr, gpc, watchVars, genVars, monVars>>

Transfer ==
    \/ NextFile
    \/ sync_remote_file \/ get_file \/ write_file_open \/ write_chunk
    \/ write_file_close \/ write_file_return \/ stream_fails
    \/ write_file_cleanup
    \/ sync_local_file \/ upload_file \/ upload_fails \/ upload_cleanup

(***************************************************************************)
(* The functions that sync once: up_by_all and down_by_all.                *)
(***************************************************************************)
\* up_by_all(session): up_by_files(list(files), session=session), which
\* fetches remote_files itself (command.map_files_raw)
up_by_all ==
    /\ gpc = "idle"
    /\ gpc' = "up_by_all"
    /\ dirn' = "up"
    /\ todo' = list_local_files(local)
    /\ remoteFiles' = [kind |-> "dict", map |-> map_files_raw(remote), dir |-> ""]
    /\ cur' = <<>> /\ tpc' = "loop" /\ err' = "none" /\ origErr' = "none"
    /\ log' = <<>> /\ resp' = NoResponse
    /\ hist' = NewSyncHist
    /\ UNCHANGED <<envVars, watchVars, genVars, monVars>>

\* down_by_all(session): down_by_files(command.list_files(session), session)
down_by_all ==
    /\ gpc = "idle"
    /\ gpc' = "down_by_all"
    /\ dirn' = "down"
    /\ todo' = list_files(remote)
    /\ remoteFiles' = NoRemoteFiles
    /\ cur' = <<>> /\ tpc' = "loop" /\ err' = "none" /\ origErr' = "none"
    /\ log' = <<>> /\ resp' = NoResponse
    /\ hist' = NewSyncHist
    /\ UNCHANGED <<envVars, watchVars, genVars, monVars>>

\* the loop is over, or an exception leaves the function
by_all_returns ==
    /\ gpc \in {"up_by_all", "down_by_all"}
    /\ \/ tpc = "loop" /\ todo = {}
       \/ tpc = "raise"
    /\ gpc' = "idle" /\ tpc' = "none" /\ todo' = {}
    /\ UNCHANGED <<envVars, dirn, cur, remoteFiles, resp, err, origErr, log,
                   hist, watchVars, genVars, monVars>>

(***************************************************************************)
(* The environment: the device (a camera writes to the card) and whoever   *)
(* else writes to the local directory.                                     *)
(***************************************************************************)
DeviceWrite ==
    /\ envLeft > 0
    /\ \E n \in Names, s \in Sizes :
          /\ ~(n \in DOMAIN remote /\ remote[n] = s)
          /\ remote' = With(remote, n, s)
    /\ changed' = TRUE
    /\ envLeft' = envLeft - 1
    /\ UNCHANGED <<local, gpc, xferVars, hist, watchVars, genVars, monVars>>

LocalWrite ==
    /\ envLeft > 0
    /\ \E n \in Names, s \in Sizes, t \in Times :
          /\ ~(n \in DOMAIN local /\ local[n] = [size |-> s, mtime |-> t])
          /\ local' = With(local, n, [size |-> s, mtime |-> t])
    /\ envLeft' = envLeft - 1
    /\ UNCHANGED <<remote, changed, gpc, xferVars, hist, watchVars, genVars,
                   monVars>>

\* sizes of the files that arrive while a Monitor runs: one chunk or several
ArrivalSizes == {1, MaxSize}

\* a file that was not there arrives while a generator is watching
DeviceArrival ==
    /\ envLeft > 0 /\ mode \in {"up", "down", "both"}
    /\ \E n \in Names \ DOMAIN remote, s \in ArrivalSizes : remote' = With(remote, n, s)
    /\ changed' = TRUE
    /\ envLeft' = envLeft - 1
    /\ UNCHANGED <<local, gpc, xferVars, hist, watchVars, genVars, monVars>>

LocalArrival ==
    /\ envLeft > 0 /\ mode \in {"up", "down", "both"}
    /\ \E n \in Names \ DOMAIN local, s \in ArrivalSizes :
          local' = With(local, n, [size |-> s, mtime |-> Now])
    /\ envLeft' = envLeft - 1
    /\ UNCHANGED <<remote, changed, gpc, xferVars, hist, watchVars, genVars,
                   monVars>>

(***************************************************************************)
(* The watcher generators watch_local_files and watch_remote_files.  One   *)
(* step is one next() of the watcher: up to and including its yield.       *)
(***************************************************************************)
\* the identity of a record in a set difference: a SimpleFileInfo is a plain
\* tuple of its fields, a record of the device's listing is its file name
LocalKey(f) == <<f.filename, f.size, f.datetime>>
RemoteKey(f) == f.filename

\* new_files - old_files
MinusLocal(new, old) == {f \in new : \A g \in old : LocalKey(g) # LocalKey(f)}
MinusRemote(new, old) == {f \in new : \A g \in old : RemoteKey(g) # RemoteKey(f)}

\* old_files after "old_files = new_files" (old, new: the values before it)
OldFilesKept(old, new) == old

OldFiles(old, new) == new

\* next(local_monitor); first: the call that starts the generator
watch_local_step(first) ==
    /\ lnew' = list_local_files(local)
    /\ lold' = IF first THEN lnew' ELSE OldFiles(lold, lnew)
    /\ newLocal' = [arr |-> MinusLocal(lnew', lold'), snap |-> lnew']

\* whether a tick of the remote watcher calls list_remote(): the first one
\* does, a later one "if command.memory_changed(session)" (sig)
RelistsAlways(first, sig) == TRUE

Relists(first, sig) == first \/ sig

\* next(remote_monitor): memory_changed clears the flag it reads
watch_remote_step(first) ==
    /\ changed' = FALSE
    /\ rnew' = IF Relists(first, changed) THEN list_files(remote) ELSE rnew
    /\ rold' = IF first THEN rnew' ELSE OldFiles(rold, rnew)
    /\ newRemote' = [arr |-> MinusRemote(rnew', rold'), snap |-> rnew']

\* the history of a tick of the local / of the remote watcher
LocalTicked(h, first) ==
    [h EXCEPT !.lticks = IF first THEN 1 ELSE 2,
              !.lprev = IF first THEN list_local_files(local) ELSE newLocal.snap]
RemoteTicked(h, first) ==
    [h EXCEPT !.rticks = IF first THEN 1 ELSE 2,
              !.rprev = IF first THEN list_files(remote) ELSE newRemote.snap,
              !.relisted = Relists(first, changed),
              !.sig = changed]

\* a caller that drives the two watchers directly
watch_local_files ==
    /\ mode = "watch"
    /\ watch_local_step(hist.lticks = 0)
    /\ hist' = LocalTicked(hist, hist.lticks = 0)
    /\ UNCHANGED <<envVars, gpc, xferVars, rold, rnew, newRemote, genVars, monVars>>

watch_remote_files ==
    /\ mode = "watch"
    /\ watch_remote_step(hist.rticks = 0)
    /\ hist' = RemoteTicked(hist, hist.rticks = 0)
    /\ UNCHANGED <<local, remote, envLeft, gpc, xferVars, lold, lnew, newLocal,
                   genVars, monVars>>

DeviceDelete ==
    /\ envLeft > 0
    /\ \E n \in DOMAIN remote : remote' = Without(remote, n)
    /\ changed' = TRUE
    /\ envLeft' = envLeft - 1
    /\ UNCHANGED <<local, gpc, xferVars, hist, watchVars, genVars, monVars>>

LocalDelete ==
    /\ envLeft > 0
    /\ \E n \in DOMAIN local : local' = Without(local, n)
    /\ envLeft' = envLeft - 1
    /\ UNCHANGED <<remote, changed, gpc, xferVars, hist, watchVars, genVars,
                   monVars>>

(***************************************************************************)
(* The orchestrator generators up_down_by_arrival, up_by_arrival and       *)
(* down_by_arrival.  gactive is TRUE from the caller's next() to the next  *)
(* yield; gpc names the statement the generator is at.                     *)
(***************************************************************************)
FileNames(S) == {f.filename : f \in S}

\* up_by_files / down_by_files has gone through every file and returned
LoopDoneAlways == TRUE

LoopDone == tpc = "loop" /\ todo = {}

\* {f for f in new if f.filename not in processed}
UnfilteredArrivals(new, done) == new

NotProcessed(new, done) == {f \in new : f.filename \notin done}

\* up_by_files(arrivals, remote_dir): remote_dir arrives as remote_files
StartUpload(files) ==
    /\ dirn' = "up" /\ todo' = files /\ cur' = <<>> /\ tpc' = "loop"
    /\ remoteFiles' = [kind |-> "str", map |-> <<>>, dir |-> RemoteDir]
    /\ resp' = NoResponse /\ err' = "none" /\ origErr' = "none" /\ log' = <<>>

\* down_by_files(arrivals, session)
StartDownload(files) ==
    /\ dirn' = "down" /\ todo' = files /\ cur' = <<>> /\ tpc' = "loop"
    /\ remoteFiles' = NoRemoteFiles
    /\ resp' = NoResponse /\ err' = "none" /\ origErr' = "none" /\ log' = <<>>

\* up_by_files / down_by_files is over: its locals are gone (an exception
\* that ended it stays in err)
EndTransfer ==
    /\ dirn' = "none" /\ todo' = {} /\ cur' = <<>> /\ tpc' = "none"
    /\ remoteFiles' = NoRemoteFiles /\ resp' = NoResponse /\ log' = <<>>
    /\ UNCHANGED <<err, origErr>>

\* the history of a call of up_by_files / down_by_files with these files
Handed(h, files) == [h EXCEPT !.handed = @ \cup FileNames(files)]

\* yield direction, files
Yield(d, files) ==
    /\ yielded' = [dir |-> d, files |-> files]
    /\ gactive' = FALSE

\* up_down_by_arrival, lines 89-91: the local watcher's baseline
up_down_start_local ==
    /\ gactive /\ mode = "both" /\ gpc = "start"
    /\ watch_local_step(TRUE)
    /\ hist' = LocalTicked(hist, TRUE)
    /\ gpc' = "b_rbase"
    /\ UNCHANGED <<envVars, xferVars, rold, rnew, newRemote, genVars, monVars>>

\* lines 92-95: the remote watcher's baseline; processed = set()
up_down_start_remote ==
    /\ gactive /\ mode = "both" /\ gpc = "b_rbase"
    /\ watch_remote_step(TRUE)
    /\ hist' = RemoteTicked(hist, TRUE)
    /\ processed' = {}
    /\ gpc' = "b_ltick"
    /\ UNCHANGED <<local, remote, envLeft, xferVars, lold, lnew, newLocal,
                   mode, gactive, arrivals, yielded, monVars>>

\* line 96, zip: next(local_monitor), at the first pass of the loop or after
\* the previous one (no remote arrivals, or down_by_files returned)
up_down_local_tick ==
    /\ gactive /\ mode = "both"
    /\ \/ gpc = "b_ltick"
       \/ gpc = "b_down" /\ LoopDone
    /\ watch_local_step(FALSE)
    /\ hist' = LocalTicked(hist, FALSE)
    /\ gpc' = "b_rtick"
    /\ EndTransfer
    /\ UNCHANGED <<envVars, rold, rnew, newRemote, genVars, monVars>>

\* line 96, zip: next(remote_monitor); lines 97-100: yield Direction.up
up_down_yield_up ==
    /\ gactive /\ mode = "both" /\ gpc = "b_rtick"
    /\ watch_remote_step(FALSE)
    /\ arrivals' = NotProcessed(newLocal.arr, processed)
    /\ Yield("up", arrivals')
    /\ hist' = [RemoteTicked(hist, FALSE) EXCEPT
                   !.yUp = @ \cup FileNames(arrivals')]
    /\ gpc' = "b_after_up"
    /\ UNCHANGED <<local, remote, envLeft, xferVars, lold, lnew, newLocal,
                   mode, processed, monVars>>

\* lines 101-104
up_down_after_up ==
    /\ gactive /\ mode = "both" /\ gpc = "b_after_up"
    /\ IF arrivals # {}
       THEN /\ processed' = processed \cup FileNames(arrivals)
            /\ StartUpload(arrivals)
            /\ hist' = Handed(hist, arrivals)
            /\ gpc' = "b_up"
       ELSE /\ gpc' = "b_remote"
            /\ UNCHANGED <<processed, xferVars, hist>>
    /\ UNCHANGED <<envVars, watchVars, mode, gactive, arrivals, yielded,
                   monVars>>

\* lines 106-109: yield Direction.down, once up_by_files has returned or
\* when there was nothing to upload
up_down_yield_down ==
    /\ gactive /\ mode = "both"
    /\ \/ gpc = "b_remote"
       \/ gpc = "b_up" /\ LoopDone
    /\ arrivals' = NotProcessed(newRemote.arr, processed)
    /\ Yield("down", arrivals')
    /\ hist' = [hist EXCEPT !.yDown = @ \cup FileNames(arrivals')]
    /\ gpc' = "b_after_down"
    /\ EndTransfer
    /\ UNCHANGED <<envVars, watchVars, mode, processed, monVars>>

\* lines 110-113: the second yield of the same remote arrivals
up_down_after_down ==
    /\ gactive /\ mode = "both" /\ gpc = "b_after_down"
    /\ IF arrivals # {}
       THEN /\ processed' = processed \cup FileNames(arrivals)
            /\ Yield("down", arrivals)
            /\ gpc' = "b_after_down2"
       ELSE /\ gpc' = "b_ltick"
            /\ UNCHANGED <<processed, yielded, gactive>>
    /\ UNCHANGED <<envVars, xferVars, watchVars, mode, arrivals, monVars, hist>>

\* line 114: down_by_files(remote_arrivals, session)
up_down_download ==
    /\ gactive /\ mode = "both" /\ gpc = "b_after_down2"
    /\ StartDownload(arrivals)
    /\ hist' = Handed(hist, arrivals)
    /\ gpc' = "b_down"
    /\ UNCHANGED <<envVars, watchVars, genVars, monVars>>

\* up_by_arrival, lines 125-127
up_start ==
    /\ gactive /\ mode = "up" /\ gpc = "start"
    /\ watch_local_step(TRUE)
    /\ hist' = LocalTicked(hist, TRUE)
    /\ gpc' = "u_ltick"
    /\ UNCHANGED <<envVars, xferVars, rold, rnew, newRemote, genVars, monVars>>

\* lines 128-130: the next pair of the local watcher is yielded
up_yield ==
    /\ gactive /\ mode = "up"
    /\ \/ gpc = "u_ltick"
       \/ gpc = "u_up" /\ LoopDone
    /\ watch_local_step(FALSE)
    /\ arrivals' = newLocal'.arr
    /\ Yield("up", arrivals')
    /\ hist' = [LocalTicked(hist, FALSE) EXCEPT
                   !.yUp = @ \cup FileNames(arrivals')]
    /\ gpc' = "u_after"
    /\ EndTransfer
    /\ UNCHANGED <<envVars, rold, rnew, newRemote, mode, processed, monVars>>

\* lines 131-133
up_after ==
    /\ gactive /\ mode = "up" /\ gpc = "u_after"
    /\ IF arrivals # {}
       THEN StartUpload(arrivals) /\ gpc' = "u_up"
       ELSE gpc' = "u_ltick" /\ UNCHANGED xferVars
    /\ hist' = Handed(hist, arrivals)
    /\ UNCHANGED <<envVars, watchVars, genVars, monVars>>

\* down_by_arrival, lines 144-146
down_start ==
    /\ gactive /\ mode = "down" /\ gpc = "start"
    /\ watch_remote_step(TRUE)
    /\ hist' = RemoteTicked(hist, TRUE)
    /\ gpc' = "d_rtick"
    /\ UNCHANGED <<local, remote, envLeft, xferVars, lold, lnew, newLocal,
                   genVars, monVars>>

\* lines 147-150: the next pair of the remote watcher; its arrivals are
\* downloaded before they are yielded
down_tick ==
    /\ gactive /\ mode = "down" /\ gpc \in {"d_rtick", "d_after"}
    /\ watch_remote_step(FALSE)
    /\ hist' = Handed(RemoteTicked(hist, FALSE), newRemote'.arr)
    /\ arrivals' = newRemote'.arr
    /\ IF arrivals' # {}
       THEN StartDownload(arrivals') /\ gpc' = "d_down"
       ELSE gpc' = "d_yield" /\ UNCHANGED xferVars
    /\ UNCHANGED <<local, remote, envLeft, lold, lnew, newLocal, mode, gactive,
                   processed, yielded, monVars>>

\* line 152
down_yield ==
    /\ gactive /\ mode = "down"
    /\ \/ gpc = "d_yield"
       \/ gpc = "d_down" /\ LoopDone
    /\ Yield("down", arrivals)
    /\ hist' = [hist EXCEPT !.yDown = @ \cup FileNames(arrivals)]
    /\ gpc' = "d_after"
    /\ EndTransfer
    /\ UNCHANGED <<envVars, watchVars, mode, processed, arrivals, monVars>>

\* an exception of a transfer propagates out of the generator, which is
\* finished from then on
generator_raises ==
    /\ gactive /\ mode \in {"up", "down", "both"} /\ tpc = "raise"
    /\ gpc' = "dead" /\ gactive' = FALSE
    /\ EndTransfer
    /\ UNCHANGED <<envVars, watchVars, mode, processed, arrivals, yielded,
                   monVars, hist>>

Generator ==
    \/ up_down_start_local \/ up_down_start_remote \/ up_down_local_tick
    \/ up_down_yield_up \/ up_down_after_up \/ up_down_yield_down
    \/ up_down_after_down \/ up_down_download
    \/ up_start \/ up_yield \/ up_after
    \/ down_start \/ down_tick \/ down_yield
    \/ generator_raises

\* the transfer steps a generator can reach: its uploads end in
\* _sync_local_file
GeneratorTransfer ==
    \/ NextFile
    \/ sync_remote_file \/ get_file \/ write_file_open \/ write_chunk
    \/ write_file_close \/ write_file_return \/ stream_fails
    \/ write_file_cleanup
    \/ sync_local_file

\* the caller of the generator: next(files)
next_files ==
    /\ ~gactive /\ mode \in {"up", "down", "both"} /\ gpc # "dead"
    /\ thread = "none"
    /\ gactive' = TRUE
    /\ UNCHANGED <<envVars, gpc, xferVars, watchVars, mode, processed, arrivals,
                   yielded, monVars, hist>>

(***************************************************************************)
(* Monitor: sync_up / sync_down / sync_both (_run), stop, join, and the    *)
(* worker thread's _run_sync.                                              *)
(***************************************************************************)
Methods == {"up", "down", "both"}
WorkerAlive == wpc \in {"check", "next", "wait", "sleep"}

\* "assert self.thread is None"
RunAllowedAlways(t) == TRUE

RunAllowed(t) == t = "none"

\* "while self.running.is_set()"
KeepsRunningAlways(flag) == TRUE

KeepsRunning(flag) == flag

\* the generator object of files = method(self.session): nothing of it has
\* run yet
StaleGenerator(m) == UNCHANGED <<gpc, xferVars, watchVars, genVars>>

NewGenerator(m) ==
    /\ mode' = m /\ gpc' = "start" /\ gactive' = FALSE
    /\ processed' = {} /\ arrivals' = {} /\ yielded' = NoYield
    /\ lold' = {} /\ lnew' = {} /\ rold' = {} /\ rnew' = {}
    /\ newLocal' = NoPair /\ newRemote' = NoPair
    /\ dirn' = "none" /\ todo' = {} /\ cur' = <<>> /\ tpc' = "none"
    /\ remoteFiles' = NoRemoteFiles /\ resp' = NoResponse /\ log' = <<>>
    /\ err' = "none" /\ origErr' = "none"

\* _run_sync is over: its generator and the generator's locals are gone
DropGenerator ==
    /\ mode' = "none" /\ gpc' = "idle" /\ gactive' = FALSE
    /\ processed' = {} /\ arrivals' = {} /\ yielded' = NoYield
    /\ lold' = {} /\ lnew' = {} /\ rold' = {} /\ rnew' = {}
    /\ newLocal' = NoPair /\ newRemote' = NoPair
    /\ dirn' = "none" /\ todo' = {} /\ cur' = <<>> /\ tpc' = "none"
    /\ remoteFiles' = NoRemoteFiles /\ resp' = NoResponse /\ log' = <<>>
    /\ err' = "none" /\ origErr' = "none"

\* the history once the worker thread is over: what was recorded about its
\* generator goes with the generator
WorkerOver(h) ==
    [InitHist EXCEPT !.live = h.live - 1, !.stopped = h.stopped,
                     !.adv = h.adv, !.startErr = h.startErr]

\* sync_up, sync_down, sync_both: self._run(method)
run ==
    /\ mpc = "ready" /\ starts < MaxStarts
    /\ starts' = starts + 1
    /\ IF RunAllowed(thread)
       THEN /\ running' = TRUE
            /\ thread' = "worker"
            /\ wpc' = "check"
            /\ \E m \in Methods : NewGenerator(m)
            /\ hist' = [InitHist EXCEPT !.live = hist.live + 1,
                                        !.afterStop = hist.stopped]
       ELSE \* AssertionError
            /\ hist' = [hist EXCEPT !.startErr = TRUE]
            /\ UNCHANGED <<running, thread, wpc, gpc, xferVars, watchVars,
                           genVars>>
    /\ UNCHANGED <<envVars, mpc>>

\* stop(): self.running.clear()
stop ==
    /\ mpc = "ready"
    /\ running' = FALSE
    /\ hist' = [hist EXCEPT !.stopped = @ \/ WorkerAlive]
    /\ UNCHANGED <<envVars, gpc, xferVars, watchVars, genVars, thread, wpc,
                   mpc, starts>>

\* join(): "if self.thread: self.thread.join()" blocks the caller
join ==
    /\ mpc = "ready"
    /\ IF thread # "none"
       THEN mpc' = "joining" /\ UNCHANGED thread
       ELSE thread' = "none" /\ UNCHANGED mpc
    /\ UNCHANGED <<envVars, gpc, xferVars, watchVars, genVars, running, wpc,
                   starts, hist>>

\* thread.join() returns once the worker is over; self.thread = None
join_returns ==
    /\ mpc = "joining" /\ ~WorkerAlive
    /\ thread' = "none" /\ mpc' = "ready"
    /\ UNCHANGED <<envVars, gpc, xferVars, watchVars, genVars, running, wpc,
                   starts, hist>>

\* where the worker reads the running flag: at "while self.running.is_set()",
\* between two calls of next(files)
AtLoopTestOrInside(pc) == pc \in {"check", "wait"}

AtLoopTest(pc) == pc = "check"

\* _run_sync, the loop test: the worker goes on or returns
worker_check ==
    /\ AtLoopTest(wpc)
    /\ IF KeepsRunning(running)
       THEN /\ wpc' = "next"
            /\ hist' = [hist EXCEPT !.afterStop = FALSE]
            /\ UNCHANGED <<gpc, xferVars, watchVars, genVars>>
       ELSE /\ wpc' = "done"
            /\ hist' = WorkerOver(hist)
            /\ DropGenerator
    /\ UNCHANGED <<envVars, running, thread, mpc, starts>>

\* "_, new = next(files)": the generator is resumed
worker_next ==
    /\ wpc = "next" /\ ~gactive
    /\ gactive' = TRUE
    /\ wpc' = "wait"
    /\ hist' = [hist EXCEPT !.adv = IF hist.stopped THEN Min(@ + 1, 2) ELSE @]
    /\ UNCHANGED <<envVars, gpc, xferVars, watchVars, mode, processed, arrivals,
                   yielded, running, thread, mpc, starts>>

\* next(files) returned a step: "if not new: time.sleep(0.3)"; or it raised,
\* and the exception ends the thread
worker_step ==
    /\ wpc = "wait" /\ ~gactive
    /\ IF gpc = "dead"
       THEN /\ wpc' = "crashed"
            /\ hist' = WorkerOver(hist)
            /\ DropGenerator
       ELSE /\ wpc' = IF yielded.files = {} THEN "sleep" ELSE "check"
            /\ UNCHANGED <<hist, gpc, xferVars, watchVars, genVars>>
    /\ UNCHANGED <<envVars, running, thread, mpc, starts>>

\* time.sleep(0.3) is over
worker_wakes ==
    /\ wpc = "sleep"
    /\ wpc' = "check"
    /\ UNCHANGED <<envVars, gpc, xferVars, watchVars, genVars, running, thread,
                   mpc, starts, hist>>

MonitorCalls == run \/ stop \/ join \/ join_returns
Worker == worker_check \/ worker_next \/ worker_step \/ worker_wakes

(***************************************************************************)
(* Initial values.                                                         *)
(***************************************************************************)
InitXferVars ==
    /\ dirn = "none" /\ todo = {} /\ cur = <<>> /\ tpc = "none"
    /\ remoteFiles = NoRemoteFiles /\ resp = NoResponse
    /\ err = "none" /\ origErr = "none" /\ log = <<>>

InitWatchVars ==
    /\ lold = {} /\ lnew = {} /\ rold = {} /\ rnew = {}
    /\ newLocal = NoPair /\ newRemote = NoPair

InitGenVars ==
    /\ mode = "none" /\ gactive = FALSE /\ processed = {} /\ arrivals = {}
    /\ yielded = NoYield

InitMonVars ==
    /\ running = FALSE /\ thread = "none" /\ wpc = "none" /\ mpc = "ready"
    /\ starts = 0

\* the files a directory may hold when the program starts
LocalDirs == PartialFns(Names, [size : Sizes, mtime : {0}])
DeviceDirs == PartialFns(Names, Sizes)

(***************************************************************************)
(* SpecXfer: the functions that sync once, over every pair of directories, *)
(* while the device may change a file.                                     *)
(***************************************************************************)
InitXfer ==
    /\ local \in LocalDirs /\ remote \in DeviceDirs
    /\ changed = FALSE /\ envLeft = MaxEnvXfer
    /\ gpc = "idle"
    /\ InitXferVars /\ InitWatchVars /\ InitGenVars /\ InitMonVars
    /\ hist = InitHist

NextXfer == up_by_all \/ down_by_all \/ by_all_returns \/ Transfer \/ DeviceWrite

SpecXfer == InitXfer /\ [][NextXfer]_vars

(***************************************************************************)
(* Properties of the transfer of one file.                                 *)
(***************************************************************************)
\* the destination of the transfer of cur, and its path there
DestPath == IF dirn = "up" THEN <<RemoteDir, curName>> ELSE <<LocalDir, curName>>
IsDeleteOfDest(e) == e.op \in {"delete", "os.remove"} /\ e.path = DestPath
TransferOps == {"GET", "open", "write", "upload"}
RECURSIVE SumWrites(_)
SumWrites(lg) ==
    IF lg = <<>> THEN 0
    ELSE (IF Head(lg).op = "write" THEN Head(lg).len ELSE 0) + SumWrites(Tail(lg))
Downloaded == dirn = "down" /\ tpc = "loop" /\ cur # <<>> /\ HasOp(log, "open")

\* C2: when the destination holds a copy of another size, the step that
\* decides deletes that copy and nothing else, the transfer starts only
\* after it, and a transfer that succeeds leaves the destination with the
\* size of the source (the local file for an upload, the file the device
\* served for a download).
C2_ReplaceDeletesThenTransfers ==
    [][ /\ (tpc = "sync" /\ tpc' # "sync" /\ hist'.stale) =>
              /\ Len(log') = 1 /\ IsDeleteOfDest(log'[1])
              /\ tpc' \in {"get", "upload"}
              /\ IF dirn = "up" THEN curName \notin DOMAIN remote'
                                ELSE curName \notin DOMAIN local'
        /\ (hist'.stale /\ \E i \in 1 .. Len(log') : log'[i].op \in TransferOps) =>
              /\ IsDeleteOfDest(log'[1])
              /\ \A i \in 1 .. Len(log') : log'[i].op \in TransferOps => i > 1
        /\ (hist.stale /\ tpc \in {"fin", "upload"} /\ tpc' = "loop") =>
              IF dirn = "up"
              THEN remote'[curName] = local[curName].size
              ELSE local'[curName].size = resp.total
      ]_vars

C2_Witness ==
    /\ dirn = "up" /\ hist.stale /\ tpc = "loop" /\ cur # <<>>
    /\ Len(log) = 2 /\ log[1].op = "delete" /\ log[2].op = "upload"
    /\ curFile.size = 2 /\ remoteFiles.map[curName].size = 1
    /\ remote[curName] = 2

\* C3: when the destination holds a copy of the same size, syncing the file
\* changes neither directory, calls no primitive and starts no transfer.
C3_SkipIfIdentical ==
    [][ /\ (tpc = "sync" /\ tpc' # "sync" /\
            IF dirn = "up"
            THEN /\ remoteFiles.kind = "dict"
                 /\ curName \in DOMAIN remoteFiles.map
                 /\ remoteFiles.map[curName].size = curFile.size
            ELSE /\ curName \in DOMAIN local
                 /\ local[curName].size = curFile.size) =>
              /\ local' = local /\ remote' = remote
              /\ log' = <<>> /\ tpc' = "loop" /\ err' = "none"
        /\ hist'.same => (log' = <<>> /\ tpc' \in {"loop", "none"})
      ]_vars

C3_Witness ==
    /\ hist.same /\ tpc = "loop" /\ cur # <<>> /\ log = <<>>
    /\ dirn = "up" /\ curName \in DOMAIN remote
    /\ remote[curName] = curFile.size

\* C4: when the exception of a failed download reaches the caller of
\* _sync_remote_file, the local directory holds no file of that name.
C4_NoPartialFileAfterFailedDownload ==
    (dirn = "down" /\ tpc = "raise") => curName \notin DOMAIN local

C4_Witness ==
    /\ dirn = "down" /\ tpc = "raise" /\ origErr = "StreamError"
    /\ HasOp(log, "write") /\ resp.left > 0

\* C5 (as claimed): when an upload was interrupted, the last call before the
\* exception reaches the caller is the device's delete of the path the
\* upload was writing on the device.
C5_CleanupDeletesRemotePath ==
    (dirn = "up" /\ tpc = "raise" /\ origErr = "UploadError") =>
        /\ log # <<>>
        /\ log[Len(log)] = Event("delete", <<RemoteDir, curName>>, 0)

\* C6 (as claimed): a failed download runs the cleanup and hands the caller
\* the exception that made it fail.
C6_CallerGetsOriginalError ==
    (dirn = "down" /\ tpc = "raise"
        /\ origErr \in {"RequestException", "StreamError"}) =>
        (hist.cleaned /\ err = origErr)

\* C7 (as claimed): a download that returns without error leaves a local
\* file of the size the file record states.
C7_DownloadedSizeIsRecordedSize ==
    Downloaded => local[curName].size = curFile.size

\* C7 (amended): a download that returns without error leaves a local file
\* whose size is the number of bytes the transport delivered, however it
\* cut them into chunks: the size of the file the device served.
C7_DownloadedSizeIsDeliveredSize ==
    Downloaded =>
        /\ local[curName].size = SumWrites(log)
        /\ local[curName].size = resp.total

C7_Witness ==
    /\ Downloaded
    /\ Cardinality({i \in 1 .. Len(log) : log[i].op = "write"}) >= 2
    /\ local[curName].size = curFile.size

(***************************************************************************)
(* SpecWatch: the two watchers, each advanced by its caller, while files   *)
(* come and go in both directories.                                        *)
(***************************************************************************)
InitWatch ==
    /\ local \in {d \in LocalDirs : \A n \in DOMAIN d : d[n].size = 1}
    /\ remote \in {d \in DeviceDirs : \A n \in DOMAIN d : d[n] = 1}
    /\ changed \in BOOLEAN /\ envLeft = MaxEnvWatch
    /\ gpc = "idle"
    /\ InitXferVars /\ InitWatchVars /\ InitMonVars
    /\ mode = "watch" /\ gactive = FALSE /\ processed = {} /\ arrivals = {}
    /\ yielded = NoYield
    /\ hist = InitHist

NextWatch ==
    \/ watch_local_files \/ watch_remote_files
    \/ LocalWrite \/ LocalDelete \/ DeviceWrite \/ DeviceDelete

SpecWatch == InitWatch /\ [][NextWatch]_vars

\* C8: on every tick of either watcher the reported arrivals are the records
\* of the reported snapshot whose identity is not in the snapshot reported on
\* the previous tick; they are empty when the two snapshots are equal, and on
\* the first tick.
C8_ArrivalsAreNewMinusOld ==
    /\ hist.lticks >= 1 =>
          /\ newLocal.arr = newLocal.snap \ hist.lprev
          /\ newLocal.snap = hist.lprev => newLocal.arr = {}
          /\ hist.lticks = 1 => newLocal.arr = {}
    /\ hist.rticks >= 1 =>
          /\ newRemote.arr =
                {f \in newRemote.snap :
                    f.filename \notin {g.filename : g \in hist.rprev}}
          /\ newRemote.snap = hist.rprev => newRemote.arr = {}
          /\ hist.rticks = 1 => newRemote.arr = {}

C8_Witness ==
    /\ hist.lticks = 2 /\ hist.rticks = 2
    /\ newLocal.arr # {} /\ hist.lprev # {} /\ newLocal.arr # newLocal.snap
    /\ newRemote.arr # {} /\ hist.rprev # {}

(***************************************************************************)
(* SpecOrch: one of the three generators, advanced by its caller, while    *)
(* files arrive in both directories.                                       *)
(***************************************************************************)
InitOrch ==
    /\ local \in {d \in LocalDirs : \A n \in DOMAIN d : d[n].size = 1}
    /\ remote \in {d \in DeviceDirs : \A n \in DOMAIN d : d[n] = 1}
    /\ changed = FALSE /\ envLeft = MaxEnvOrch
    /\ gpc = "start"
    /\ InitXferVars /\ InitWatchVars /\ InitMonVars
    /\ mode \in {"up", "down", "both"}
    /\ gactive = FALSE /\ processed = {} /\ arrivals = {} /\ yielded = NoYield
    /\ hist = InitHist

NextOrch ==
    next_files \/ Generator \/ GeneratorTransfer \/ LocalWrite \/ DeviceWrite

SpecOrch == InitOrch /\ [][NextOrch]_vars

\* C1: in one run of up_down_by_arrival no file name is yielded both in an
\* up step and in a down step, and no file is handed to the transfer of one
\* direction after its name was yielded in a step of the other: the filter
\* is by file name against the processed set.
C1_NoTransferBackAfterTransfer ==
    mode = "both" =>
        /\ hist.yUp \cap hist.yDown = {}
        /\ FileNames(todo) \cup FileNames({cur[i] : i \in 1 .. Len(cur)}) \subseteq
              (IF dirn = "up" THEN Names \ hist.yDown ELSE Names \ hist.yUp)
        /\ gpc \in {"b_after_down", "b_after_down2", "b_down"} =>
              FileNames(arrivals) \cap hist.yUp = {}
        /\ gpc \in {"b_after_up", "b_up"} =>
              FileNames(arrivals) \cap hist.yDown = {}

\* a file that was downloaded is a new local file on the next tick and is
\* left out of the up step
C1_Witness ==
    /\ mode = "both" /\ gpc = "b_after_up" /\ yielded.dir = "up"
    /\ \E f \in newLocal.arr :
          /\ f.filename \in hist.yDown /\ f.filename \in processed
          /\ f \notin yielded.files
          /\ f.filename \in DOMAIN remote
          /\ remote[f.filename] = f.size

(***************************************************************************)
(* Spec: one Monitor, whose methods one thread calls in any order, its     *)
(* worker, and the two directories.  FairSpec: the worker thread and a     *)
(* caller blocked in join() are scheduled.                                 *)
(***************************************************************************)
Init ==
    /\ local = <<>> /\ remote = <<>>
    /\ changed = FALSE /\ envLeft = MaxEnvMon
    /\ gpc = "idle"
    /\ InitXferVars /\ InitWatchVars /\ InitGenVars /\ InitMonVars
    /\ hist = InitHist

WorkerThread == Worker \/ Generator \/ GeneratorTransfer

Next == MonitorCalls \/ WorkerThread \/ LocalArrival \/ DeviceArrival

Spec == Init /\ [][Next]_vars

FairSpec == Spec /\ WF_vars(WorkerThread) /\ WF_vars(join_returns)

\* C9: once stop() was called while the worker lives, the worker begins at
\* most one more next(files) and then returns, and a caller blocked in join()
\* after it gets back with the worker's handle cleared.
C9_StopThenJoinTerminates ==
    /\ [](hist.adv <= 1)
    /\ ((hist.stopped /\ WorkerAlive) ~> ~WorkerAlive)
    /\ ((mpc = "joining" /\ ~running) ~> (mpc = "ready" /\ thread = "none"))

\* stop() came between the loop test and next(files): one more advance
C9_Witness ==
    /\ hist.stopped /\ hist.adv = 1 /\ wpc = "done"
    /\ mpc = "ready" /\ thread = "none"

\* C10: a Monitor never has more than one live worker thread.
C10_AtMostOneWorker ==
    /\ hist.live <= 1
    /\ hist.live = (IF WorkerAlive THEN 1 ELSE 0)

\* a start was attempted while the worker was alive
C10_Witness ==
    /\ hist.startErr /\ WorkerAlive /\ hist.live = 1 /\ starts = 2

\* C11 (as claimed): a start on a Monitor whose worker was not joined raises
\* no error, starts no second worker and leaves the running flag and the
\* worker handle as they were.
C11_StartWhileRunningIsNoOp ==
    [][ (starts' = starts + 1 /\ thread # "none") =>
           /\ ~hist'.startErr
           /\ hist'.live = hist.live
           /\ UNCHANGED <<running, thread, wpc>> ]_vars

\* C11 (amended): a start on a Monitor whose worker was not joined raises
\* AssertionError before anything is changed: no second worker, the running
\* flag, the worker handle, the worker and its generator as they were.
C11_StartWhileRunningRaises ==
    [][ (starts' = starts + 1 /\ thread # "none") =>
           /\ hist'.startErr
           /\ hist'.live = hist.live
           /\ UNCHANGED <<running, thread, wpc, gpc, genVars, xferVars>> ]_vars

\* a start after stop() and before join(): the flag stays clear
C11_Witness ==
    /\ hist.startErr /\ hist.stopped /\ ~running /\ thread = "worker"
    /\ mpc = "ready"

\* C12: join() returns only when the worker is over and clears the handle;
\* every start on a cleared handle succeeds: it sets the running flag and
\* spawns one worker whose generator has not run yet, in every cycle.
C12_LifecycleRepeatable ==
    [][ /\ (mpc = "joining" /\ mpc' = "ready") =>
              (~WorkerAlive /\ thread' = "none")
        /\ (starts' = starts + 1 /\ thread = "none") =>
              /\ running' /\ thread' = "worker" /\ wpc' = "check"
              /\ ~hist'.startErr /\ hist'.live = 1
              /\ mode' \in Methods /\ gpc' = "start" /\ ~gactive'
              /\ processed' = {} /\ yielded' = NoYield
              /\ newLocal' = NoPair /\ newRemote' = NoPair
              /\ tpc' = "none" ]_vars

\* a second start, after stop() and join() of the first worker, has
\* spawned a worker with a generator of its own
C12_Witness ==
    /\ hist.afterStop /\ starts = 2 /\ running /\ thread = "worker"
    /\ wpc = "check" /\ gpc = "start" /\ mode \in Methods
    /\ hist.live = 1 /\ ~hist.startErr /\ ~hist.stopped

\* C13: a pass of the download loop whose progress update raised still
\* writes its chunk and stays in the loop, with no error and no cleanup; a
\* download in which a progress update raised and that returns leaves the
\* whole file.
C13_PbarFailureNeverAborts ==
    [][ /\ (/\ Len(log') = Len(log) + 1
            /\ log'[Len(log')].op = "write"
            /\ hist'.pbarErr) =>
              /\ tpc' = "chunks" /\ err' = "none" /\ ~hist'.cleaned
              /\ curName \in DOMAIN local'
              /\ local'[curName].size =
                    local[curName].size + log'[Len(log')].len
        /\ (hist.pbarErr /\ tpc = "fin" /\ tpc' = "loop") =>
              /\ err' = "none" /\ ~hist'.cleaned
              /\ local'[curName].size = resp.total ]_vars

\* a download of two chunks in which a progress update raised has returned
C13_Witness ==
    /\ Downloaded /\ hist.pbarErr /\ ~hist.cleaned /\ err = "none"
    /\ Cardinality({i \in 1 .. Len(log) : log[i].op = "write"}) >= 2
    /\ local[curName].size = SumWrites(log)

\* C14 (as claimed): under up_by_arrival and up_down_by_arrival the upload of
\* an arrival is decided against the device's listing, and an arrival whose
\* name the device does not hold is handed to the upload primitive, with no
\* error.
C14_AbsentArrivalIsUploaded ==
    (/\ mode \in {"up", "both"} /\ dirn = "up" /\ cur # <<>> /\ tpc # "sync"
     /\ curName \notin DOMAIN remote) =>
        /\ remoteFiles.kind = "dict"
        /\ err = "none"
        /\ HasOp(log, "upload")

(***************************************************************************)
(* SpecBoth: up_down_by_arrival alone, advanced by its caller from two     *)
(* empty directories, while files are written on both sides.               *)
(***************************************************************************)
InitBoth ==
    /\ local = <<>> /\ remote = <<>>
    /\ changed = FALSE /\ envLeft = MaxEnvBoth
    /\ gpc = "start"
    /\ InitXferVars /\ InitWatchVars /\ InitMonVars
    /\ mode = "both"
    /\ gactive = FALSE /\ processed = {} /\ arrivals = {} /\ yielded = NoYield
    /\ hist = InitHist

up_down_by_arrival ==
    \/ up_down_start_local \/ up_down_start_remote \/ up_down_local_tick
    \/ up_down_yield_up \/ up_down_after_up \/ up_down_yield_down
    \/ up_down_after_down \/ up_down_download
    \/ generator_raises

NextBoth ==
    next_files \/ up_down_by_arrival \/ GeneratorTransfer
        \/ LocalWrite \/ DeviceWrite

SpecBoth == InitBoth /\ [][NextBoth]_vars

\* C15: in up_down_by_arrival the down step is yielded only after the up
\* step of the same tick, and only when that tick had nothing to upload or
\* up_by_files has gone through all its files; a download starts only after
\* that down step, when no upload is going on.
C15_UpBeforeDownInOneTick ==
    [][ mode = "both" =>
        /\ (gpc' = "b_after_down" /\ gpc # "b_after_down") =>
              /\ yielded.dir = "up"
              /\ \/ gpc = "b_remote" /\ yielded.files = {}
                 \/ gpc = "b_up" /\ tpc = "loop" /\ todo = {}
        /\ (dirn' = "down" /\ dirn # "down") =>
              /\ dirn = "none" /\ tpc = "none"
              /\ yielded.dir = "down" /\ todo' = yielded.files
        /\ (dirn' = "up" /\ dirn # "up") =>
              (yielded.dir = "up" /\ todo' = yielded.files) ]_vars

\* a tick with a local and a remote arrival: the upload of the local one
\* has failed and nothing of the remote one was downloaded
C15_Witness ==
    /\ gpc = "dead" /\ yielded.dir = "up" /\ yielded.files # {}
    /\ newRemote.arr # {}
    /\ FileNames(newRemote.arr) \cap FileNames(yielded.files) = {}
    /\ FileNames(newRemote.arr) \cap DOMAIN local = {}
    /\ hist.yDown = {}

\* C16: up_by_arrival and up_down_by_arrival yield a step before anything of
\* it is transferred: at the yield no transfer is going on and no file of the
\* step was handed to one, and the transfer that starts next is that of the
\* yielded step; down_by_arrival yields a non-empty step only when
\* down_by_files has gone through all its files and returned.
C16_YieldPosition ==
    [][ /\ (mode \in {"up", "both"} /\ gactive /\ ~gactive' /\ gpc' # "dead") =>
              /\ dirn' = "none" /\ tpc' = "none"
              /\ FileNames(yielded'.files) \cap hist'.handed = {}
        /\ (mode \in {"up", "both"} /\ dirn = "none" /\ dirn' # "none") =>
              /\ gactive /\ yielded.dir = dirn' /\ todo' = yielded.files
        /\ (mode = "down" /\ gactive /\ ~gactive' /\ gpc' # "dead"
              /\ yielded'.files # {}) =>
              /\ gpc = "d_down" /\ dirn = "down" /\ tpc = "loop" /\ todo = {}
              /\ err = "none"
              /\ FileNames(yielded'.files) \subseteq hist.handed ]_vars

\* down_by_arrival has yielded a file that it has downloaded
C16_Witness ==
    /\ mode = "down" /\ ~gactive /\ gpc = "d_after" /\ yielded.files # {}
    /\ \A f \in yielded.files :
          /\ f.filename \in hist.handed
          /\ f.filename \in DOMAIN local
          /\ local[f.filename].mtime = Now

\* C17: the remote watcher reads, and so clears, the change signal before
\* its baseline listing; a later tick lists the device if and only if the
\* signal it read was set, and a tick that read it clear reports the
\* snapshot of the tick before with no arrivals; every read clears the
\* signal.
C17_RemoteRelistsOnlyOnSignal ==
    /\ [](/\ hist.rticks = 1 => (hist.relisted /\ newRemote.arr = {})
          /\ hist.rticks = 2 =>
                /\ hist.relisted <=> hist.sig
                /\ ~hist.sig => (newRemote.snap = hist.rprev
                                   /\ newRemote.arr = {}))
    /\ [][ /\ (hist.rticks = 0 /\ hist'.rticks = 1) =>
                 (~changed' /\ newRemote'.snap = list_files(remote))
           /\ (changed /\ ~changed') =>
                 /\ hist'.sig /\ hist'.relisted
                 /\ newRemote'.snap = list_files(remote) ]_vars

\* a tick that read the signal clear, after one that had listed a file
C17_Witness ==
    /\ hist.rticks = 2 /\ ~hist.sig /\ ~hist.relisted
    /\ newRemote.snap # {} /\ newRemote.snap = hist.rprev
    /\ newRemote.arr = {} /\ ~changed
    /\ newRemote.snap = list_files(remote)

\* C18: the worker returns on a clear flag only between two steps of its
\* generator, when no transfer is going on; it ends otherwise only when its
\* generator raised, the transfer having failed; and stop() changes nothing
\* but the flag.
C18_StopNeverInterruptsTransfer ==
    [][ /\ (WorkerAlive /\ wpc' = "done") =>
              (~gactive /\ tpc = "none" /\ dirn = "none" /\ todo = {})
        /\ (WorkerAlive /\ wpc' = "crashed") =>
              (~gactive /\ gpc = "dead" /\ tpc = "none")
        /\ (running /\ ~running') =>
              UNCHANGED <<local, remote, gpc, xferVars, genVars, wpc, thread>>
      ]_vars

\* stop() came during the step in which a download runs (the worker has
\* begun no next(files) since): the flag is clear, the worker is alive and
\* the download has written the whole file
C18_Witness ==
    /\ hist.stopped /\ hist.adv = 0 /\ ~running /\ wpc = "wait" /\ gactive
    /\ dirn = "down" /\ tpc = "fin" /\ err = "none"
    /\ curName \in DOMAIN local /\ local[curName].size = resp.total

\* C19 (as claimed): when the worker of sync_up or sync_both returns, every
\* file its generator has yielded in a step was handed to up_by_files or
\* down_by_files.
C19_NoYieldedArrivalDropped ==
    [][ (WorkerAlive /\ wpc' = "done" /\ mode \in {"up", "both"}) =>
           (hist.yUp \cup hist.yDown) \subseteq hist.handed ]_vars

\* C20: in one run of up_down_by_arrival no file name is handed to
\* up_by_files or down_by_files in two steps: a name that was handed to a
\* transfer is in no arrival set computed and in no step yielded afterwards,
\* whichever side it arrives on again.
C20_EachNameTransferredOnce ==
    [][ mode = "both" =>
        /\ (dirn = "none" /\ dirn' # "none") =>
              FileNames(todo') \cap hist.handed = {}
        /\ (arrivals' # arrivals) =>
              FileNames(arrivals') \cap hist.handed = {}
        /\ (gactive /\ ~gactive' /\ gpc' # "dead") =>
              FileNames(yielded'.files) \cap hist.handed = {} ]_vars

\* a file that was downloaded is in the local directory with another size
\* than in the local watcher's previous snapshot (the download replaced it,
\* or it was written again): the watcher reports it and the up step leaves
\* it out
C20_Witness ==
    /\ mode = "both" /\ gpc = "b_after_up" /\ yielded.dir = "up"
    /\ \E f \in newLocal.arr :
          /\ f.filename \in hist.handed /\ f.filename \in hist.yDown
          /\ f \notin yielded.files /\ f \notin arrivals
          /\ \E g \in hist.lprev : g.filename = f.filename /\ g.size # f.size

\* C21 (as claimed): whenever the Monitor's worker handle is empty its
\* running flag is clear.
C21_IdleImpliesFlagClear ==
    thread = "none" => ~running

====
